---- MODULE Spec2Model ----
(***************************************************************************)
(* DictionaryConverter (slyr/converters/dictionary.py): conversion of a    *)
(* parsed symbol object tree into nested dictionaries.                     *)
(*                                                                         *)
(* Python values are modelled as follows: a dict is a function with a      *)
(* string domain, a list is a sequence, None is the value None below, an   *)
(* object is a record of its attributes plus `class` (its class name).     *)
(* A call that raises is modelled by the value Raise(e).                   *)
(***************************************************************************)
EXTENDS Integers, Sequences, FiniteSets, TLC

VARIABLES out, pc, symbol, idx, ret, exc, history, results, snapshots, alias

vars == <<out, pc, symbol, idx, ret, exc, history, results, snapshots, alias>>

RECURSIVE convert_symbol_layer(_)
RECURSIVE convert_decoration(_)
RECURSIVE convert_decoration_elements(_, _)
RECURSIVE convert_levels(_, _)
RECURSIVE convert_symbol(_)
RECURSIVE DecorationConverted(_, _)
RECURSIVE nested_symbols(_)
RECURSIVE decoration_symbols(_)
RECURSIVE accumulator_after(_, _)

(***************************************************************************)
(* Bounds of the checked input domain.                                     *)
(***************************************************************************)
\* longest `levels` sequence of a top-level symbol
MaxLevels == 2

\* most calls made on one converter
MaxCalls == 3

(***************************************************************************)
(* Python values.                                                          *)
(***************************************************************************)
None == [none |-> TRUE]

EmptyDict == <<>>

\* out[k] = v on a dict
Put(d, k, v) == (k :> v) @@ d

Raise(e) == [exc |-> e]

IsExc(r) == "exc" \in DOMAIN r

NotImplementedException == "NotImplementedException"

AttributeError == "AttributeError"

\* the marker of "no exception raised" in the variable exc
NoExc == "none"

Has(d, k) == k \in DOMAIN d

(***************************************************************************)
(* The parsed objects handed to the converter.                             *)
(***************************************************************************)
Red == [model |-> "rgb", to_dict |-> [R |-> 255, G |-> 0, B |-> 0]]

Black == [model |-> "cmyk", to_dict |-> [C |-> 0, M |-> 0, Y |-> 0, K |-> 100]]

Colors == {Red, Black}

NullableColors == Colors \cup {None}

\* enabled, locked and tags of a layer
LayerFlags ==
    { [enabled |-> TRUE, locked |-> FALSE, tags |-> <<>>],
      [enabled |-> FALSE, locked |-> TRUE, tags |-> <<"a">>],
      [enabled |-> TRUE, locked |-> TRUE, tags |-> <<"a", "b">>] }

Flags0 == [enabled |-> TRUE, locked |-> FALSE, tags |-> <<>>]

Layer(cls, f, attrs) ==
    [class |-> cls, enabled |-> f.enabled, locked |-> f.locked, tags |-> f.tags] @@ attrs

FillSymbolLayerClasses ==
    {"SimpleFillSymbolLayer", "ColorSymbol", "GradientFillSymbolLayer",
     "LineFillSymbolLayer", "MarkerFillSymbolLayer", "PictureFillSymbolLayer",
     "FillSymbolLayer"}

LineSymbolLayerClasses ==
    {"SimpleLineSymbolLayer", "CartographicLineSymbolLayer", "HashLineSymbolLayer",
     "MarkerLineSymbolLayer", "LineSymbolLayer"}

MarkerSymbolLayerClasses ==
    {"SimpleMarkerSymbolLayer", "CharacterMarkerSymbolLayer", "ArrowMarkerSymbolLayer",
     "PictureMarkerSymbolLayer", "MarkerSymbolLayer"}

SymbolLayerClasses ==
    FillSymbolLayerClasses \cup LineSymbolLayerClasses \cup MarkerSymbolLayerClasses
        \cup {"SymbolLayer"}

SymbolClasses == {"FillSymbol", "LineSymbol", "MarkerSymbol"}

\* issubclass(x.__class__, SymbolLayer)
IsSymbolLayer(x) == x # None /\ x.class \in SymbolLayerClasses

\* issubclass(x.__class__, Symbol)
IsSymbol(x) == x # None /\ x.class \in SymbolClasses

\* GradientFillSymbolLayer.LINEAR, .CIRCULAR, .BUFFERED, .RECTANGULAR
LINEAR == 0

RECTANGULAR == 1

CIRCULAR == 2

BUFFERED == 3

GradientTypeCodes == {LINEAR, RECTANGULAR, CIRCULAR, BUFFERED, BUFFERED + 1}

\* ---- layers and symbols without embedded sub-objects ----
SimpleLine(f, color) ==
    Layer("SimpleLineSymbolLayer", f, [color |-> color, width |-> 1, line_type |-> "solid"])

\* a line layer of a variant the converter does not know
OtherLine == Layer("LineSymbolLayer", Flags0, <<>>)

\* a fill layer of a variant the converter does not know
OtherFill == Layer("FillSymbolLayer", Flags0, <<>>)

\* a marker layer of a variant the converter does not know
OtherMarker == Layer("MarkerSymbolLayer", Flags0, <<>>)

\* a layer of none of the three families
OtherLayer == Layer("SymbolLayer", Flags0, <<>>)

ArrowMarker(f, color) ==
    Layer("ArrowMarkerSymbolLayer", f,
          [color |-> color, size |-> 8, width |-> 5, angle |-> 90,
           x_offset |-> 0, y_offset |-> 1])

SimpleMarker(f, color, outline_color) ==
    Layer("SimpleMarkerSymbolLayer", f,
          [color |-> color, type |-> "circle", size |-> 8, x_offset |-> 0, y_offset |-> 1,
           outline_enabled |-> TRUE, outline_color |-> outline_color, outline_width |-> 1])

StdFont ==
    [class |-> "Font", font_name |-> "Arial", charset |-> 0, weight |-> 400, size |-> 10,
     italic |-> FALSE, strikethrough |-> FALSE, underline |-> TRUE]

CharacterMarker(f, color, std_font) ==
    Layer("CharacterMarkerSymbolLayer", f,
          [color |-> color, unicode |-> 65, font |-> "ESRI Default Marker",
           std_font |-> std_font, size |-> 8, angle |-> 0, x_offset |-> 0, y_offset |-> 1])

BmpPicture == [class |-> "BmpPicture", content |-> "bmp-bytes"]

EmfPicture == [class |-> "EmfPicture", content |-> "emf-bytes"]

StdPicture(p) == [class |-> "StdPicture", picture |-> p]

\* a picture of a kind the converter does not know
OtherPicture == [class |-> "Picture", content |-> "other-bytes"]

Pictures == {None, BmpPicture, EmfPicture, StdPicture(BmpPicture), StdPicture(EmfPicture),
             OtherPicture}

PictureMarker(f, fg, bg, tr, picture) ==
    Layer("PictureMarkerSymbolLayer", f,
          [color_foreground |-> fg, color_background |-> bg, color_transparent |-> tr,
           size |-> 8, angle |-> 0, x_offset |-> 0, y_offset |-> 1, swap_fb_gb |-> FALSE,
           picture |-> picture])

ColorSymbolLayer(f, color) == Layer("ColorSymbol", f, [color |-> color])

Symbol(cls, levels) == [class |-> cls, levels |-> levels]

MarkerSymbol(levels, halo, halo_size, halo_symbol) ==
    [class |-> "MarkerSymbol", levels |-> levels, halo |-> halo, halo_size |-> halo_size,
     halo_symbol |-> halo_symbol]

LineTemplate == [class |-> "LineTemplate", pattern_interval |-> 4, pattern_parts |-> <<2, 2>>]

SimpleLineDecoration(marker) ==
    [class |-> "SimpleLineDecoration", fixed_angle |-> TRUE, flip_first |-> FALSE,
     flip_all |-> FALSE, marker |-> marker, marker_positions |-> <<0, 1>>]

LineDecoration(decorations) == [class |-> "LineDecoration", decorations |-> decorations]

ColorRamp(colors) == [class |-> "ColorRamp", to_dict |-> [type |-> "ColorRamp", colors |-> colors]]

ColorRamps == {ColorRamp(<<Red.to_dict, Black.to_dict>>), ColorRamp(<<Black.to_dict>>)}

Ramp0 == ColorRamp(<<Red.to_dict, Black.to_dict>>)

\* ---- layers with embedded sub-objects ----
SimpleFill(f, color, ol, os) ==
    Layer("SimpleFillSymbolLayer", f,
          [color |-> color, outline_layer |-> ol, outline_symbol |-> os])

GradientFill(f, code, ol, os) ==
    Layer("GradientFillSymbolLayer", f,
          [ramp |-> Ramp0, percent |-> 75, angle |-> 90, intervals |-> 5, type |-> code,
           outline_layer |-> ol, outline_symbol |-> os])

LineFill(f, line, ol, os) ==
    Layer("LineFillSymbolLayer", f,
          [line |-> line, angle |-> 45, offset |-> 0, separation |-> 5,
           outline_layer |-> ol, outline_symbol |-> os])

MarkerFill(f, marker, ol, os) ==
    Layer("MarkerFillSymbolLayer", f,
          [marker |-> marker, offset_x |-> 0, offset_y |-> 1, separation_x |-> 5,
           separation_y |-> 6, random |-> FALSE, outline_layer |-> ol,
           outline_symbol |-> os])

PictureFill(f, fg, bg, tr, picture, ol, os) ==
    Layer("PictureFillSymbolLayer", f,
          [color_foreground |-> fg, color_background |-> bg, color_transparent |-> tr,
           swap_fb_gb |-> TRUE, picture |-> picture, angle |-> 0, scale_x |-> 1,
           scale_y |-> 2, offset_x |-> 0, offset_y |-> 1, separation_x |-> 5,
           separation_y |-> 6, outline_layer |-> ol, outline_symbol |-> os])

CartographicLine(f, color, template, decoration) ==
    Layer("CartographicLineSymbolLayer", f,
          [color |-> color, width |-> 1, offset |-> 0, cap |-> "butt", join |-> "miter",
           template |-> template, decoration |-> decoration])

MarkerLine(f, color, template, pattern_marker, decoration) ==
    Layer("MarkerLineSymbolLayer", f,
          [color |-> color, offset |-> 0, cap |-> "butt", join |-> "miter",
           template |-> template, pattern_marker |-> pattern_marker,
           decoration |-> decoration])

HashLine(f, color, template, line, decoration) ==
    Layer("HashLineSymbolLayer", f,
          [color |-> color, width |-> 1, offset |-> 0, cap |-> "butt", join |-> "miter",
           template |-> template, line |-> line, decoration |-> decoration])

\* ---- the sub-objects embedded in the layers of the checked inputs ----
SubLine == SimpleLine(Flags0, Red)

SubMarker == ArrowMarker(Flags0, Black)

SubLineSymbol == Symbol("LineSymbol", <<SubLine, SimpleLine(Flags0, Black)>>)

\* a line symbol whose second layer cannot be converted
BadLineSymbol == Symbol("LineSymbol", <<SubLine, OtherLine>>)

SubMarkerSymbol == MarkerSymbol(<<SubMarker>>, FALSE, 0, None)

\* a marker symbol whose layer cannot be converted
BadMarkerSymbol == MarkerSymbol(<<OtherMarker>>, FALSE, 0, None)

HaloSymbol == Symbol("FillSymbol", <<ColorSymbolLayer(Flags0, Red), SimpleFill(Flags0, Black, SubLine, None)>>)

\* a halo symbol whose second layer cannot be converted
BadHaloSymbol == Symbol("FillSymbol", <<ColorSymbolLayer(Flags0, Red), OtherFill>>)

OutlineLayers == {None, SubLine}

OutlineSymbols == {None, SubLineSymbol}

Templates == {None, LineTemplate}

Decorations ==
    { None,
      LineDecoration(<<SimpleLineDecoration(None)>>),
      LineDecoration(<<SimpleLineDecoration(SubMarker),
                       LineDecoration(<<SimpleLineDecoration(SubMarkerSymbol)>>)>>),
      SimpleLineDecoration(SubMarker),
      LineDecoration(<<SimpleLineDecoration(None), SimpleLineDecoration(BadMarkerSymbol)>>),
      LineDecoration(<<LineDecoration(<<LineDecoration(<<SimpleLineDecoration(SubMarker)>>),
                                        SimpleLineDecoration(None)>>),
                       SimpleLineDecoration(SubMarkerSymbol)>>) }

Decoration0 == LineDecoration(<<SimpleLineDecoration(SubMarker)>>)

\* ---- the layers of the checked inputs ----
FillLayers ==
    {SimpleFill(f, c, None, None) : f \in LayerFlags, c \in NullableColors}
    \cup {SimpleFill(Flags0, Red, ol, os) :
            ol \in OutlineLayers \cup {OtherLine}, os \in OutlineSymbols \cup {BadLineSymbol}}
    \cup {ColorSymbolLayer(f, c) : f \in LayerFlags, c \in NullableColors}
    \cup {GradientFill(Flags0, code, ol, os) :
            code \in GradientTypeCodes, ol \in OutlineLayers, os \in OutlineSymbols}
    \cup {LineFill(Flags0, l, ol, os) :
            l \in {SubLine, SubLineSymbol, BadLineSymbol},
            ol \in OutlineLayers, os \in OutlineSymbols}
    \cup {MarkerFill(Flags0, m, ol, os) :
            m \in {SubMarker, SubMarkerSymbol, BadMarkerSymbol},
            ol \in OutlineLayers, os \in OutlineSymbols}
    \cup {PictureFill(Flags0, Red, Black, Red, BmpPicture, ol, os) :
            ol \in OutlineLayers, os \in OutlineSymbols}
    \cup {PictureFill(Flags0, fg, bg, tr, BmpPicture, None, None) :
            fg \in {Red, None}, bg \in {Black, None}, tr \in {Red, None}}
    \cup {PictureFill(Flags0, Red, Black, None, p, None, None) : p \in Pictures}
    \cup {OtherFill}

LineLayers ==
    {SimpleLine(f, c) : f \in LayerFlags, c \in NullableColors}
    \cup {CartographicLine(Flags0, Red, t, d) : t \in Templates, d \in Decorations}
    \cup {CartographicLine(Flags0, None, None, None)}
    \cup {MarkerLine(Flags0, c, t, pm, d) :
            c \in {Red, None}, t \in Templates,
            pm \in {None, SubMarker, SubMarkerSymbol, BadMarkerSymbol},
            d \in {None, Decoration0}}
    \cup {HashLine(Flags0, Black, t, l, d) :
            t \in Templates, l \in {None, SubLine, SubLineSymbol},
            d \in {None, Decoration0}}
    \cup {HashLine(Flags0, None, None, None, None)}
    \cup {OtherLine}

MarkerLayers ==
    {SimpleMarker(f, Red, Black) : f \in LayerFlags}
    \cup {SimpleMarker(Flags0, c, oc) : c \in NullableColors, oc \in {Black, None}}
    \cup {CharacterMarker(f, Red, sf) : f \in LayerFlags, sf \in {None, StdFont}}
    \cup {CharacterMarker(Flags0, None, StdFont)}
    \cup {ArrowMarker(f, c) : f \in LayerFlags, c \in {Red, None}}
    \cup {PictureMarker(Flags0, fg, bg, tr, BmpPicture) :
            fg \in {Red, None}, bg \in {Black, None}, tr \in {Red, None}}
    \cup {PictureMarker(Flags0, Red, Black, None, p) : p \in Pictures}
    \cup {OtherMarker}

Layers == FillLayers \cup LineLayers \cup MarkerLayers \cup {OtherLayer}

\* ---- the symbols of the checked inputs: every sequence of at most MaxLevels
\* ---- layers made of one layer of the family and the two layers of Palette
Palette(good) == {good, OtherLayer}

LevelsOver(primaries, palette) ==
    UNION {UNION {[1..n -> {l} \cup palette] : n \in 1..MaxLevels} : l \in primaries}

FillSymbols ==
    {Symbol("FillSymbol", ls) :
        ls \in LevelsOver(FillLayers, Palette(ColorSymbolLayer(Flags0, Black)))}

LineSymbols ==
    {Symbol("LineSymbol", ls) :
        ls \in LevelsOver(LineLayers, Palette(SimpleLine(Flags0, Black)))}

Halos ==
    { [halo |-> FALSE, halo_size |-> 0, halo_symbol |-> None],
      [halo |-> TRUE, halo_size |-> 2, halo_symbol |-> HaloSymbol],
      [halo |-> TRUE, halo_size |-> 3, halo_symbol |-> BadHaloSymbol] }

MarkerSymbols ==
    {MarkerSymbol(ls, h.halo, h.halo_size, h.halo_symbol) :
        ls \in LevelsOver(MarkerLayers, Palette(ArrowMarker(Flags0, Black))),
        h \in Halos}

Symbols == FillSymbols \cup LineSymbols \cup MarkerSymbols

\* what convert_symbol is called with: a symbol or a bare layer
Inputs == Symbols \cup Layers

(***************************************************************************)
(* Leaf converters.                                                        *)
(***************************************************************************)
\* type(x).__name__
TypeName(x) == IF x = None THEN "NoneType" ELSE x.class

convert_color(color) == IF color # None THEN color.to_dict ELSE None

convert_font(font) ==
    [font_name |-> font.font_name, charset |-> font.charset, weight |-> font.weight,
     size |-> font.size, italic |-> font.italic, strikethrough |-> font.strikethrough,
     underline |-> font.underline]

convert_template(template) ==
    [pattern_interval |-> template.pattern_interval,
     pattern_parts |-> template.pattern_parts]

\* PictureUtils.to_base64_png: the content re-encoded as PNG, then base64
to_base64_png(content) == <<"base64", "png", content>>

\* PictureUtils.to_base64: the content as it is, base64
to_base64(content) == <<"base64", "raw", content>>

convert_picture(picture) ==
    IF picture = None THEN None
    ELSE LET p == IF picture.class = "StdPicture" THEN picture.picture ELSE picture
             o == [type |-> TypeName(p)]
         IN IF p # None /\ p.class = "BmpPicture"
               THEN Put(o, "content", to_base64_png(p.content))
            ELSE IF p # None /\ p.class = "EmfPicture"
               THEN Put(o, "content", to_base64(p.content))
            ELSE Raise(NotImplementedException)

\* a returned str, boxed so that it can be told from a raised exception
Str(s) == [str |-> s]

\* convert_gradient_type falling back to 'linear' for a code it does not know
convert_gradient_type_default(gradient_type) ==
    IF gradient_type = CIRCULAR THEN Str("circular")
    ELSE IF gradient_type = BUFFERED THEN Str("buffered")
    ELSE IF gradient_type = RECTANGULAR THEN Str("rectangular")
    ELSE Str("linear")

convert_gradient_type(gradient_type) ==
    IF gradient_type = LINEAR THEN Str("linear")
    ELSE IF gradient_type = CIRCULAR THEN Str("circular")
    ELSE IF gradient_type = BUFFERED THEN Str("buffered")
    ELSE IF gradient_type = RECTANGULAR THEN Str("rectangular")
    ELSE Raise(NotImplementedException)

(***************************************************************************)
(* Statements on the dict a converter builds.  The dict being built, o, is *)
(* Raise(e) once a statement has raised; the statements after it are then  *)
(* not executed.                                                           *)
(***************************************************************************)
\* out[key] = v, where v is the result of a call that may raise
Set(o, key, v) ==
    IF IsExc(o) THEN o ELSE IF IsExc(v) THEN v ELSE Put(o, key, v)

\* if cond: out[key] = v
SetIf(cond, o, key, v) ==
    IF IsExc(o) THEN o ELSE IF cond THEN Set(o, key, v) ELSE o

\* if cond: out[key] = v, where v is a value at hand
PutIf(cond, o, key, v) ==
    IF IsExc(o) THEN o ELSE IF cond THEN Put(o, key, v) ELSE o

\* out[k] = fields[k] for the keys k of fields, none of which raises
Update(o, fields) == IF IsExc(o) THEN o ELSE fields @@ o

\* out[key] = v, where v is a returned str or a raised exception
SetStr(o, key, v) ==
    IF IsExc(o) THEN o ELSE IF IsExc(v) THEN v ELSE Put(o, key, v.str)

(***************************************************************************)
(* Fill symbol layers.                                                     *)
(***************************************************************************)
\* the outline block with `elif` for the outline symbol
convert_outlines_elif(o, layer) ==
    SetIf(layer.outline_layer = None /\ layer.outline_symbol # None,
          SetIf(layer.outline_layer # None, o, "outline_layer",
                convert_symbol_layer(layer.outline_layer)),
          "outline_symbol", convert_symbol(layer.outline_symbol))

\* the outline block of a fill layer: o is the dict built so far
convert_outlines(o, layer) ==
    SetIf(layer.outline_symbol # None,
          SetIf(layer.outline_layer # None, o, "outline_layer",
                convert_symbol_layer(layer.outline_layer)),
          "outline_symbol", convert_symbol(layer.outline_symbol))

convert_simple_fill_symbol_layer(layer) ==
    IF layer.color = None THEN Raise(AttributeError)
    ELSE convert_outlines([color |-> convert_color(layer.color),
                           color_model |-> layer.color.model], layer)

convert_gradient_fill_symbol_layer(layer) ==
    SetStr(Update(convert_outlines(EmptyDict, layer),
                  [ramp |-> layer.ramp.to_dict, percent |-> layer.percent,
                   angle |-> layer.angle, intervals |-> layer.intervals]),
           "gradient_type", convert_gradient_type(layer.type))

\* layer.line or layer.marker of a fill layer, a symbol or a bare layer
convert_fill_payload(payload) ==
    IF IsSymbol(payload) THEN convert_symbol(payload) ELSE convert_symbol_layer(payload)

convert_line_fill_symbol_layer(layer) ==
    Update(Set(convert_outlines(EmptyDict, layer), "line_symbol",
               convert_fill_payload(layer.line)),
           [angle |-> layer.angle, offset |-> layer.offset,
            separation |-> layer.separation])

convert_marker_fill_symbol_layer(layer) ==
    Update(Set(convert_outlines(EmptyDict, layer), "marker",
               convert_fill_payload(layer.marker)),
           [offset_x |-> layer.offset_x, offset_y |-> layer.offset_y,
            separation_x |-> layer.separation_x, separation_y |-> layer.separation_y,
            random |-> layer.random])

convert_picture_fill_symbol_layer(layer) ==
    IF layer.color_background = None THEN Raise(AttributeError)
    ELSE Update(
           Set(convert_outlines(
                   [color_foreground |-> convert_color(layer.color_foreground),
                    color_foreground_model |->
                        IF layer.color_foreground # None THEN layer.color_foreground.model
                        ELSE None,
                    color_background |-> convert_color(layer.color_background),
                    color_background_model |-> layer.color_background.model,
                    color_transparent |-> convert_color(layer.color_transparent),
                    color_transparent_model |->
                        IF layer.color_transparent = None THEN None
                        ELSE layer.color_transparent.model,
                    swap_fg_bg |-> layer.swap_fb_gb],
                   layer),
               "picture", convert_picture(layer.picture)),
           [angle |-> layer.angle, scale_x |-> layer.scale_x, scale_y |-> layer.scale_y,
            offset_x |-> layer.offset_x, offset_y |-> layer.offset_y,
            separation_x |-> layer.separation_x, separation_y |-> layer.separation_y])

convert_color_symbol(layer) ==
    IF layer.color = None THEN Raise(AttributeError)
    ELSE [color |-> convert_color(layer.color), color_model |-> layer.color.model]

convert_fill_symbol_layer(layer) ==
    IF layer.class = "SimpleFillSymbolLayer" THEN convert_simple_fill_symbol_layer(layer)
    ELSE IF layer.class = "ColorSymbol" THEN convert_color_symbol(layer)
    ELSE IF layer.class = "GradientFillSymbolLayer"
        THEN convert_gradient_fill_symbol_layer(layer)
    ELSE IF layer.class = "LineFillSymbolLayer" THEN convert_line_fill_symbol_layer(layer)
    ELSE IF layer.class = "MarkerFillSymbolLayer"
        THEN convert_marker_fill_symbol_layer(layer)
    ELSE IF layer.class = "PictureFillSymbolLayer"
        THEN convert_picture_fill_symbol_layer(layer)
    ELSE Raise(NotImplementedException)

(***************************************************************************)
(* Decorations and line symbol layers.                                     *)
(***************************************************************************)
\* an embedded marker or line of a line layer or decoration: a bare layer
\* or a symbol
convert_payload(payload) ==
    IF IsSymbolLayer(payload) THEN convert_symbol_layer(payload)
    ELSE convert_symbol(payload)

\* the block of a line layer or decoration that converts an embedded layer
\* or symbol into out[key]
convert_layer_payload(o, key, payload) ==
    SetIf(IsSymbolLayer(payload) \/ IsSymbol(payload), o, key, convert_payload(payload))

convert_simple_line_decoration(layer) ==
    convert_layer_payload(
        [fixed_angle |-> layer.fixed_angle, flip_first |-> layer.flip_first,
         flip_all |-> layer.flip_all, marker |-> None,
         positions |-> layer.marker_positions],
        "marker", layer.marker)

\* a LineDecoration or a SimpleLineDecoration, converted
convert_decoration_element(d) ==
    IF d.class = "LineDecoration" THEN convert_decoration(d)
    ELSE convert_simple_line_decoration(d)

\* append_decoration with the new element put in front of the list
append_decoration_prepend(o, r) ==
    IF IsExc(o) THEN o
    ELSE IF IsExc(r) THEN r
    ELSE [o EXCEPT !["decorations"] = <<r>> \o @]

\* out['decorations'].append(r), where r is the result of a call that may raise
append_decoration(o, r) ==
    IF IsExc(o) THEN o
    ELSE IF IsExc(r) THEN r
    ELSE [o EXCEPT !["decorations"] = Append(@, r)]

\* the loop of convert_decoration from its n-th element on: o is out so far
convert_decoration_elements(o, ds) ==
    IF IsExc(o) \/ ds = <<>> THEN o
    ELSE convert_decoration_elements(
             IF Head(ds).class \in {"LineDecoration", "SimpleLineDecoration"}
                THEN append_decoration(o, convert_decoration_element(Head(ds)))
             ELSE o,
             Tail(ds))

convert_decoration(decoration) ==
    convert_decoration_elements([decorations |-> <<>>], decoration.decorations)

\* the template block of a line layer
convert_layer_template(o, layer) ==
    SetIf(layer.template # None, o, "template", convert_template(layer.template))

\* the decoration block of a line layer
convert_layer_decoration(o, layer) ==
    SetIf(layer.decoration # None
            /\ layer.decoration.class \in {"LineDecoration", "SimpleLineDecoration"},
          o, "decoration", convert_decoration_element(layer.decoration))

convert_simple_line_symbol_layer(layer) ==
    IF layer.color = None THEN Raise(AttributeError)
    ELSE [color |-> convert_color(layer.color), color_model |-> layer.color.model,
          width |-> layer.width, line_type |-> layer.line_type]

convert_cartographic_line_symbol_layer(layer) ==
    IF layer.color = None THEN Raise(AttributeError)
    ELSE convert_layer_decoration(
             convert_layer_template(
                 [color |-> convert_color(layer.color),
                  color_model |-> layer.color.model,
                  width |-> layer.width, offset |-> layer.offset, cap |-> layer.cap,
                  join |-> layer.join, template |-> None, decoration |-> None],
                 layer),
             layer)

\* convert_marker_line_symbol_layer reading layer.color.model without the guard
convert_marker_line_symbol_layer_unguarded(layer) ==
    IF layer.color = None THEN Raise(AttributeError)
    ELSE convert_layer_decoration(
             convert_layer_payload(
                 convert_layer_template(
                     [color |-> convert_color(layer.color),
                      color_model |-> layer.color.model,
                      offset |-> layer.offset, cap |-> layer.cap, join |-> layer.join,
                      template |-> None, pattern_marker |-> None, decoration |-> None],
                     layer),
                 "pattern_marker", layer.pattern_marker),
             layer)

convert_marker_line_symbol_layer(layer) ==
    convert_layer_decoration(
        convert_layer_payload(
            convert_layer_template(
                [color |-> convert_color(layer.color),
                 color_model |-> IF layer.color # None THEN layer.color.model ELSE None,
                 offset |-> layer.offset, cap |-> layer.cap, join |-> layer.join,
                 template |-> None, pattern_marker |-> None, decoration |-> None],
                layer),
            "pattern_marker", layer.pattern_marker),
        layer)

\* convert_hash_line_symbol_layer without the 'line': None default
convert_hash_line_symbol_layer_no_default(layer) ==
    IF layer.color = None THEN Raise(AttributeError)
    ELSE convert_layer_decoration(
             convert_layer_payload(
                 convert_layer_template(
                     [color |-> convert_color(layer.color),
                      color_model |-> layer.color.model,
                      width |-> layer.width, offset |-> layer.offset, cap |-> layer.cap,
                      join |-> layer.join, template |-> None, decoration |-> None],
                     layer),
                 "line", layer.line),
             layer)

convert_hash_line_symbol_layer(layer) ==
    IF layer.color = None THEN Raise(AttributeError)
    ELSE convert_layer_decoration(
             convert_layer_payload(
                 convert_layer_template(
                     [color |-> convert_color(layer.color),
                      color_model |-> layer.color.model,
                      width |-> layer.width, offset |-> layer.offset, cap |-> layer.cap,
                      join |-> layer.join, template |-> None, decoration |-> None,
                      line |-> None],
                     layer),
                 "line", layer.line),
             layer)

convert_line_symbol_layer(layer) ==
    IF layer.class = "SimpleLineSymbolLayer" THEN convert_simple_line_symbol_layer(layer)
    ELSE IF layer.class = "CartographicLineSymbolLayer"
        THEN convert_cartographic_line_symbol_layer(layer)
    ELSE IF layer.class = "HashLineSymbolLayer" THEN convert_hash_line_symbol_layer(layer)
    ELSE IF layer.class = "MarkerLineSymbolLayer"
        THEN convert_marker_line_symbol_layer(layer)
    ELSE Raise(NotImplementedException)

(***************************************************************************)
(* Marker symbol layers.                                                   *)
(***************************************************************************)
convert_simple_marker_symbol_layer(layer) ==
    IF layer.color = None \/ layer.outline_color = None THEN Raise(AttributeError)
    ELSE [color |-> convert_color(layer.color), color_model |-> layer.color.model,
          marker_type |-> layer.type, size |-> layer.size, x_offset |-> layer.x_offset,
          y_offset |-> layer.y_offset, outline_enabled |-> layer.outline_enabled,
          outline_color_model |-> layer.outline_color.model,
          outline_color |-> layer.outline_color.to_dict,
          outline_size |-> layer.outline_width]

\* convert_character_marker_symbol_layer without the 'std_font': None default
convert_character_marker_symbol_layer_no_default(layer) ==
    IF layer.color = None THEN Raise(AttributeError)
    ELSE SetIf(layer.std_font # None,
               [color |-> convert_color(layer.color), color_model |-> layer.color.model,
                unicode |-> layer.unicode, font |-> layer.font,
                size |-> layer.size, angle |-> layer.angle,
                x_offset |-> layer.x_offset, y_offset |-> layer.y_offset],
               "std_font", convert_font(layer.std_font))

convert_character_marker_symbol_layer(layer) ==
    IF layer.color = None THEN Raise(AttributeError)
    ELSE SetIf(layer.std_font # None,
               [color |-> convert_color(layer.color), color_model |-> layer.color.model,
                unicode |-> layer.unicode, font |-> layer.font, std_font |-> None,
                size |-> layer.size, angle |-> layer.angle,
                x_offset |-> layer.x_offset, y_offset |-> layer.y_offset],
               "std_font", convert_font(layer.std_font))

convert_arrow_marker_symbol_layer(layer) ==
    IF layer.color = None THEN Raise(AttributeError)
    ELSE [color |-> convert_color(layer.color), color_model |-> layer.color.model,
          size |-> layer.size, width |-> layer.width, angle |-> layer.angle,
          x_offset |-> layer.x_offset, y_offset |-> layer.y_offset]

convert_picture_marker_symbol_layer(layer) ==
    IF layer.color_foreground = None \/ layer.color_background = None
       THEN Raise(AttributeError)
    ELSE Set([color_foreground |-> convert_color(layer.color_foreground),
              color_foreground_model |-> layer.color_foreground.model,
              color_background |-> convert_color(layer.color_background),
              color_background_model |-> layer.color_background.model,
              color_transparent |-> convert_color(layer.color_transparent),
              color_transparent_model |->
                  IF layer.color_transparent = None THEN None
                  ELSE layer.color_transparent.model,
              size |-> layer.size, angle |-> layer.angle,
              x_offset |-> layer.x_offset, y_offset |-> layer.y_offset,
              swap_fg_bg |-> layer.swap_fb_gb],
             "picture", convert_picture(layer.picture))

convert_marker_symbol_layer(layer) ==
    IF layer.class = "SimpleMarkerSymbolLayer"
        THEN convert_simple_marker_symbol_layer(layer)
    ELSE IF layer.class = "CharacterMarkerSymbolLayer"
        THEN convert_character_marker_symbol_layer(layer)
    ELSE IF layer.class = "ArrowMarkerSymbolLayer"
        THEN convert_arrow_marker_symbol_layer(layer)
    ELSE IF layer.class = "PictureMarkerSymbolLayer"
        THEN convert_picture_marker_symbol_layer(layer)
    ELSE Raise(NotImplementedException)

(***************************************************************************)
(* The layer router.                                                       *)
(***************************************************************************)
\* the dispatch of convert_symbol_layer on the family of the layer
convert_layer_family(layer) ==
    IF layer.class \in FillSymbolLayerClasses THEN convert_fill_symbol_layer(layer)
    ELSE IF layer.class \in LineSymbolLayerClasses THEN convert_line_symbol_layer(layer)
    ELSE IF layer.class \in MarkerSymbolLayerClasses
        THEN convert_marker_symbol_layer(layer)
    ELSE Raise(NotImplementedException)

\* set_universal_fields writing `tags` whether or not the layer has tags
set_universal_fields_always_tags(o, layer) ==
    Update(o, [type |-> TypeName(layer), enabled |-> layer.enabled,
               locked |-> layer.locked, tags |-> layer.tags])

\* the tail of convert_symbol_layer: type, enabled, locked and tags
set_universal_fields(o, layer) ==
    PutIf(layer.tags # <<>>,
          Update(o, [type |-> TypeName(layer), enabled |-> layer.enabled,
                     locked |-> layer.locked]),
          "tags", layer.tags)

convert_symbol_layer(layer) == set_universal_fields(convert_layer_family(layer), layer)

(***************************************************************************)
(* The converter instances of the nested conversions.  The symbols listed  *)
(* are those the conversion of a layer hands to convert_symbol, in the     *)
(* order of the calls, when no call raises.                                *)
(***************************************************************************)
\* an embedded marker or line: a symbol is converted by convert_symbol, a
\* bare layer by convert_symbol_layer, which converts the symbols in it
payload_symbols(payload) ==
    IF IsSymbol(payload) THEN <<payload>>
    ELSE IF IsSymbolLayer(payload) THEN nested_symbols(payload)
    ELSE <<>>

\* the symbols converted for a decoration or an element of one
decoration_symbols(d) ==
    IF d = None THEN <<>>
    ELSE IF d.class = "SimpleLineDecoration" THEN payload_symbols(d.marker)
    ELSE IF d.class # "LineDecoration" \/ d.decorations = <<>> THEN <<>>
    ELSE decoration_symbols(Head(d.decorations))
            \o decoration_symbols(LineDecoration(Tail(d.decorations)))

\* the symbols converted for the outline of a fill layer
outline_symbols(layer) ==
    payload_symbols(layer.outline_layer)
       \o (IF layer.outline_symbol # None THEN <<layer.outline_symbol>> ELSE <<>>)

\* the symbols convert_symbol_layer(layer) converts by convert_symbol
nested_symbols(layer) ==
    CASE layer.class \in {"SimpleFillSymbolLayer", "GradientFillSymbolLayer",
                          "PictureFillSymbolLayer"} ->
             outline_symbols(layer)
      [] layer.class = "LineFillSymbolLayer" ->
             outline_symbols(layer) \o payload_symbols(layer.line)
      [] layer.class = "MarkerFillSymbolLayer" ->
             outline_symbols(layer) \o payload_symbols(layer.marker)
      [] layer.class = "CartographicLineSymbolLayer" ->
             decoration_symbols(layer.decoration)
      [] layer.class = "MarkerLineSymbolLayer" ->
             payload_symbols(layer.pattern_marker) \o decoration_symbols(layer.decoration)
      [] layer.class = "HashLineSymbolLayer" ->
             payload_symbols(layer.line) \o decoration_symbols(layer.decoration)
      [] OTHER -> <<>>

\* self.convert_symbol(s): the nested pass runs on the calling converter and
\* leaves its accumulator in self.out
calling_converter(o, s) == IF IsExc(convert_symbol(s)) THEN o ELSE convert_symbol(s)

\* DictionaryConverter().convert_symbol(s): the nested pass runs on a new
\* instance; o, self.out of the calling converter, is not written
own_converter(o, s) == o

\* self.out of the calling converter after the nested passes for ss
accumulator_after(o, ss) ==
    IF ss = <<>> THEN o
    ELSE accumulator_after(own_converter(o, Head(ss)), Tail(ss))

(***************************************************************************)
(* The symbol dispatcher.  A conversion pass is described by the value of  *)
(* self.out and the exception raised, if any: [out |-> .., exc |-> ..].    *)
(***************************************************************************)
Pass(o, e) == [out |-> o, exc |-> e]

\* convert_fill_symbol up to its loop
convert_fill_symbol_init(s) == Pass([type |-> "FillSymbol", levels |-> <<>>], NoExc)

\* convert_line_symbol up to its loop
convert_line_symbol_init(s) == Pass([type |-> "LineSymbol", levels |-> <<>>], NoExc)

\* self.out[key] = r, where r is the result of a call that may raise
set_out(o, key, r) == IF IsExc(r) THEN Pass(o, r.exc) ELSE Pass(Put(o, key, r), NoExc)

\* the halo block of convert_marker_symbol writing 'halo_symbol' for every symbol
convert_halo_always(o, s) ==
    IF s.halo_symbol # None /\ s.halo_symbol.class = "FillSymbol"
       THEN set_out(o, "halo_symbol", convert_symbol(s.halo_symbol))
    ELSE Pass(Put(o, "halo_symbol", None), NoExc)

\* the halo block of convert_marker_symbol: o is self.out
convert_halo(o, s) ==
    IF s.halo_symbol # None /\ s.halo_symbol.class = "FillSymbol"
       THEN set_out(own_converter(o, s.halo_symbol), "halo_symbol",
                    convert_symbol(s.halo_symbol))
    ELSE Pass(o, NoExc)

\* convert_marker_symbol up to its loop; o is self.out on entry
convert_marker_symbol_init(o, s) ==
    IF ~ (Has(s, "halo") /\ Has(s, "halo_size") /\ Has(s, "halo_symbol"))
       THEN Pass(o, AttributeError)
    ELSE convert_halo([type |-> "MarkerSymbol", levels |-> <<>>, halo |-> s.halo,
                       halo_size |-> s.halo_size,
                       halo_symbol_type |-> TypeName(s.halo_symbol)], s)

\* Converter.convert_symbol: the dispatch on the category of the symbol
dispatch_symbol(o, s) ==
    IF s.class \in FillSymbolLayerClasses \cup {"FillSymbol"}
       THEN convert_fill_symbol_init(s)
    ELSE IF s.class \in LineSymbolLayerClasses \cup {"LineSymbol"}
       THEN convert_line_symbol_init(s)
    ELSE IF s.class \in MarkerSymbolLayerClasses \cup {"MarkerSymbol"}
       THEN convert_marker_symbol_init(o, s)
    ELSE Pass(o, NotImplementedException)

\* convert_symbol from its entry to the loop over the layers
convert_symbol_header(s) == dispatch_symbol(EmptyDict, s)

\* the layers the loop of convert_*_symbol converts
symbol_levels(s) == IF IsSymbolLayer(s) THEN <<s>> ELSE s.levels

\* append_result with the new level put in front of the list
append_result_prepend(o, r) ==
    IF IsExc(r) THEN Pass(o, r.exc)
    ELSE Pass([o EXCEPT !["levels"] = <<r>> \o @], NoExc)

\* self.out['levels'].append(r), where r is the result of a call that may raise
append_result(o, r) ==
    IF IsExc(r) THEN Pass(o, r.exc)
    ELSE Pass([o EXCEPT !["levels"] = Append(@, r)], NoExc)

\* self.out['levels'].append(self.convert_symbol_layer(l))
append_level(o, l) ==
    append_result(accumulator_after(o, nested_symbols(l)), convert_symbol_layer(l))

\* the loop over the layers ls, from the pass p
convert_levels(p, ls) ==
    IF p.exc # NoExc \/ ls = <<>> THEN p
    ELSE convert_levels(append_level(p.out, Head(ls)), Tail(ls))

\* a whole conversion pass on a converter of its own
convert_symbol_pass(s) == convert_levels(convert_symbol_header(s), symbol_levels(s))

\* what a call returns after the pass p: self.out, or the exception
pass_result(p) == IF p.exc # NoExc THEN Raise(p.exc) ELSE p.out

\* DictionaryConverter().convert_symbol(s): what it returns, or Raise(e)
convert_symbol(s) == pass_result(convert_symbol_pass(s))

(***************************************************************************)
(* One DictionaryConverter and the calls made on it, a call of             *)
(* convert_symbol taken one layer of the loop at a time.                   *)
(*   out       the dict self.out names                                     *)
(*   pc        "idle" (no call in progress or finished), "levels" (in the  *)
(*             loop of the call), "returned", "raised"                     *)
(*   symbol    the argument of the call                                    *)
(*   idx       the position in symbol_levels(symbol) the loop is at        *)
(*   ret       the value the call returned                                 *)
(*   exc       the exception the call raised                               *)
(*   history   the arguments of the calls made so far, in order            *)
(*   results   results[i] is the dict the i-th call returned, as it is     *)
(*             now (None if that call returned no dict)                    *)
(*   snapshots snapshots[i] is that dict as it was when it was returned    *)
(*   alias     the calls whose returned dict is the dict self.out names    *)
(***************************************************************************)
\* self.out = new through the in-place self.out.update(new)
assign_out_update(o, al, new) == [out |-> new @@ o, alias |-> al]

\* self.out = new: self.out names a new dict, which no call has returned
assign_out(o, al, new) == [out |-> new, alias |-> {}]

\* a write into the dict self.out names shows in every result that is that dict
write_through(res, al, o) == [i \in DOMAIN res |-> IF i \in al THEN o ELSE res[i]]

\* __init__
Init ==
    /\ out = EmptyDict
    /\ pc = "idle"
    /\ symbol = None
    /\ idx = 0
    /\ ret = None
    /\ exc = NoExc
    /\ history = <<>>
    /\ results = <<>>
    /\ snapshots = <<>>
    /\ alias = {}

\* convert_symbol(s) up to the loop over the layers
Enter(s) ==
    /\ Len(history) < MaxCalls
    /\ \E h \in {dispatch_symbol(EmptyDict, s)} :
          \E a \in {assign_out(out, alias, h.out)} :
             /\ out' = a.out
             /\ alias' = a.alias
             /\ results' = Append(write_through(results, a.alias, a.out), None)
             /\ exc' = h.exc
             /\ pc' = IF h.exc # NoExc THEN "raised" ELSE "levels"
    /\ history' = Append(history, s)
    /\ snapshots' = Append(snapshots, None)
    /\ symbol' = s
    /\ idx' = 1
    /\ ret' = None

\* convert_symbol(s) on a converter no call of convert_symbol was made on
ConvertSymbolCall(s) ==
    /\ pc = "idle"
    /\ Enter(s)

\* convert_symbol(s) on a converter whose last call returned or raised
ReuseConvertSymbol(s) ==
    /\ pc \in {"returned", "raised"}
    /\ Enter(s)

\* one round of the loop `for l in symbol.levels`
ConvertLevel ==
    /\ pc = "levels"
    /\ idx <= Len(symbol_levels(symbol))
    /\ \E p \in {append_level(out, symbol_levels(symbol)[idx])} :
          /\ out' = p.out
          /\ results' = write_through(results, alias, p.out)
          /\ exc' = p.exc
          /\ pc' = IF p.exc # NoExc THEN "raised" ELSE "levels"
          /\ idx' = IF p.exc # NoExc THEN idx ELSE idx + 1
    /\ UNCHANGED <<symbol, ret, history, snapshots, alias>>

\* return self.out
Return ==
    /\ pc = "levels"
    /\ idx > Len(symbol_levels(symbol))
    /\ ret' = out
    /\ results' = [results EXCEPT ![Len(history)] = out]
    /\ snapshots' = [snapshots EXCEPT ![Len(history)] = out]
    /\ alias' = alias \cup {Len(history)}
    /\ pc' = "returned"
    /\ UNCHANGED <<out, symbol, idx, exc, history>>

\* convert_color_ramp(ramp)
ConvertColorRamp(ramp) ==
    /\ pc = "idle"
    /\ \E a \in {assign_out(out, alias, ramp.to_dict)} :
          /\ out' = a.out
          /\ alias' = a.alias
          /\ results' = write_through(results, a.alias, a.out)
    /\ UNCHANGED <<pc, symbol, idx, ret, exc, history, snapshots>>

\* convert_color_ramp(ramp) on a converter whose last call returned or raised
ReuseConvertColorRamp(ramp) ==
    /\ pc \in {"returned", "raised"}
    /\ Len(history) < MaxCalls
    /\ \E a \in {assign_out(out, alias, ramp.to_dict)} :
          /\ out' = a.out
          /\ alias' = a.alias
          /\ results' = Append(write_through(results, a.alias, a.out), None)
    /\ history' = Append(history, ramp)
    /\ snapshots' = Append(snapshots, None)
    /\ pc' = "idle"
    /\ symbol' = None
    /\ idx' = 0
    /\ ret' = None
    /\ exc' = NoExc

\* one converter, one call of convert_symbol on it
Next ==
    \/ \E s \in Inputs : ConvertSymbolCall(s)
    \/ ConvertLevel
    \/ Return
    \/ \E ramp \in ColorRamps : ConvertColorRamp(ramp)

Spec == Init /\ [][Next]_vars

\* what the reused converter is called with: symbols of the three categories
\* that convert, a symbol that raises at its second layer, and bare layers
\* that convert, raise at the head of the call, or are of no family
ReuseInputs ==
    { MarkerSymbol(<<SubMarker>>, TRUE, 2, HaloSymbol),
      Symbol("FillSymbol", <<ColorSymbolLayer(Flags0, Red), SimpleFill(Flags0, Black, None, None)>>),
      SubLineSymbol,
      BadLineSymbol,
      SubLine,
      SubMarker,
      OtherLayer }

\* one converter, up to MaxCalls calls on it, one after the other
NextReuse ==
    \/ \E s \in ReuseInputs : ConvertSymbolCall(s)
    \/ \E s \in ReuseInputs : ReuseConvertSymbol(s)
    \/ ConvertLevel
    \/ Return
    \/ \E ramp \in ColorRamps : ConvertColorRamp(ramp)
    \/ \E ramp \in ColorRamps : ReuseConvertColorRamp(ramp)

SpecReuse == Init /\ [][NextReuse]_vars

TypeOK ==
    /\ pc \in {"idle", "levels", "returned", "raised"}
    /\ (pc = "raised") = (exc # NoExc)

(***************************************************************************)
(* Properties.                                                             *)
(***************************************************************************)
\* the layers the call in progress has to convert
CallLevels == IF pc = "idle" THEN <<>> ELSE symbol_levels(symbol)

\* the positions of the layers converted and appended so far
Converted ==
    IF pc # "idle" /\ Has(out, "levels") THEN 1..Len(out["levels"]) ELSE {}

\* the call raised while converting the layer at idx, not before its loop
RaisedAtLayer ==
    /\ pc = "raised"
    /\ convert_symbol_header(symbol).exc = NoExc
    /\ idx <= Len(CallLevels)

UniversalKeys == {"type", "enabled", "locked", "tags"}

\* C1: for a FillSymbol, LineSymbol or MarkerSymbol with layers L, the levels
\* collected so far are the conversions of L[1..idx-1] in that order, the
\* returned map has exactly Len(L) levels, the i-th being the conversion of
\* L[i], and its type is the category of the symbol.
C1_LevelsInOrder ==
    (pc \in {"levels", "returned"} /\ IsSymbol(symbol)) =>
        /\ out["type"] = symbol.class
        /\ Len(out["levels"]) = idx - 1
        /\ \A i \in 1..Len(out["levels"]) :
              /\ out["levels"][i] = convert_symbol_layer(symbol.levels[i])
              /\ out["levels"][i]["type"] = symbol.levels[i].class
        /\ pc = "returned" =>
              /\ ret = out
              /\ Len(ret["levels"]) = Len(symbol.levels)

C1_Witness ==
    /\ pc = "returned"
    /\ IsSymbol(symbol)
    /\ Len(symbol.levels) = 2
    /\ symbol.levels[1].class # symbol.levels[2].class
    /\ Len(ret["levels"]) = 2

\* the one-layer symbol of the layer's category that wraps the layer
Wrap(l) ==
    IF l.class \in FillSymbolLayerClasses THEN Symbol("FillSymbol", <<l>>)
    ELSE IF l.class \in LineSymbolLayerClasses THEN Symbol("LineSymbol", <<l>>)
    ELSE MarkerSymbol(<<l>>, FALSE, 0, None)

\* a bare layer of one of the three families that the layer router converts
SupportedBareLayer(l) ==
    /\ IsSymbolLayer(l)
    /\ l.class # "SymbolLayer"
    /\ ~ IsExc(convert_symbol_layer(l))

\* C2: a call with a supported bare layer of any of the three families does
\* not raise, and returns levels of length 1 equal to the levels of the
\* conversion of the one-layer symbol wrapping that layer.
C2_BareLayerAsSymbol ==
    (pc # "idle" /\ SupportedBareLayer(symbol)) =>
        /\ pc # "raised"
        /\ pc = "returned" =>
              /\ Len(ret["levels"]) = 1
              /\ ret["levels"] = convert_symbol(Wrap(symbol))["levels"]

\* C3: a call that raises leaves no partial output: nothing is returned and
\* self.out holds no type/levels map.
C3_FailureIsAtomic ==
    pc = "raised" => (ret = None /\ out = EmptyDict)

\* C4: every converted layer is of one of the three families and its map has
\* type = the name of its class, enabled and locked = its flags, and tags
\* (= its tags) exactly when its tags are not empty; converting a layer of
\* none of the three families raises NotImplementedException.
C4_UniversalFields ==
    /\ \A i \in Converted :
          LET l == CallLevels[i]
              m == out["levels"][i]
          IN /\ l.class \in FillSymbolLayerClasses \cup LineSymbolLayerClasses
                                \cup MarkerSymbolLayerClasses
             /\ m["type"] = l.class
             /\ m["enabled"] = l.enabled
             /\ m["locked"] = l.locked
             /\ Has(m, "tags") <=> l.tags # <<>>
             /\ Has(m, "tags") => m["tags"] = l.tags
    /\ (RaisedAtLayer /\ CallLevels[idx].class = "SymbolLayer") =>
          exc = NotImplementedException

C4_Witness ==
    /\ RaisedAtLayer
    /\ CallLevels[idx].class = "SymbolLayer"
    /\ Converted = {1}
    /\ Has(out["levels"][1], "tags")

\* the name the specification gives a gradient type code
GradientTypeName(code) ==
    CASE code = LINEAR -> "linear"
      [] code = CIRCULAR -> "circular"
      [] code = BUFFERED -> "buffered"
      [] code = RECTANGULAR -> "rectangular"
      [] OTHER -> "unsupported"

\* C5: a converted GradientFillSymbolLayer has one of the four known type
\* codes and gradient_type is the name of that code; a call raises at a
\* gradient layer only for a code that is none of the four, the exception is
\* NotImplementedException and nothing is returned, whether or not the layer
\* has an outline layer or an outline symbol.
C5_GradientType ==
    /\ \A i \in Converted :
          CallLevels[i].class = "GradientFillSymbolLayer" =>
              /\ CallLevels[i].type \in {LINEAR, CIRCULAR, BUFFERED, RECTANGULAR}
              /\ out["levels"][i]["gradient_type"] = GradientTypeName(CallLevels[i].type)
    /\ (RaisedAtLayer /\ CallLevels[idx].class = "GradientFillSymbolLayer") =>
          /\ CallLevels[idx].type \notin {LINEAR, CIRCULAR, BUFFERED, RECTANGULAR}
          /\ exc = NotImplementedException
          /\ ret = None
          /\ Len(out["levels"]) = idx - 1

C5_Witness ==
    /\ RaisedAtLayer
    /\ CallLevels[idx].class = "GradientFillSymbolLayer"
    /\ CallLevels[idx].outline_layer # None
    /\ CallLevels[idx].outline_symbol # None
    /\ idx = 2

OutlineFillClasses ==
    {"SimpleFillSymbolLayer", "GradientFillSymbolLayer", "LineFillSymbolLayer",
     "MarkerFillSymbolLayer", "PictureFillSymbolLayer"}

\* C6: the map of a Simple, Gradient, LineFill, MarkerFill or PictureFill
\* layer has the key outline_layer exactly when the layer has an outline
\* layer and the key outline_symbol exactly when it has an outline symbol,
\* each holding the conversion of that outline; the map of a ColorSymbol
\* layer has neither key.
C6_OutlineKeys ==
    \A i \in Converted :
        LET l == CallLevels[i]
            m == out["levels"][i]
        IN /\ l.class \in OutlineFillClasses =>
                /\ Has(m, "outline_layer") <=> l.outline_layer # None
                /\ Has(m, "outline_symbol") <=> l.outline_symbol # None
                /\ Has(m, "outline_layer") =>
                      m["outline_layer"]["type"] = l.outline_layer.class
                /\ Has(m, "outline_symbol") =>
                      /\ m["outline_symbol"]["type"] = l.outline_symbol.class
                      /\ Len(m["outline_symbol"]["levels"]) = Len(l.outline_symbol.levels)
           /\ l.class = "ColorSymbol" =>
                ~ Has(m, "outline_layer") /\ ~ Has(m, "outline_symbol")

C6_Witness ==
    /\ Converted = {1, 2}
    /\ CallLevels[1].class = "ColorSymbol"
    /\ CallLevels[2].class = "PictureFillSymbolLayer"
    /\ Has(out["levels"][2], "outline_layer")
    /\ Has(out["levels"][2], "outline_symbol")

\* the optional embedded fields of the line layer variants: output key and
\* attribute of the layer
EmbeddedKeys(cls) ==
    CASE cls = "CartographicLineSymbolLayer" -> {"template", "decoration"}
      [] cls = "MarkerLineSymbolLayer" -> {"template", "decoration", "pattern_marker"}
      [] cls = "HashLineSymbolLayer" -> {"template", "decoration", "line"}
      [] OTHER -> {}

\* C7: the map of a Cartographic, MarkerLine or Hash line layer always has
\* the keys template and decoration (and pattern_marker for MarkerLine, line
\* for Hash); each holds None exactly when the layer has no such sub-object
\* and the converted sub-object otherwise.
C7_EmbeddedNeverOmitted ==
    \A i \in Converted :
        LET l == CallLevels[i]
            m == out["levels"][i]
        IN /\ \A k \in EmbeddedKeys(l.class) :
                /\ Has(m, k)
                /\ (m[k] = None) <=> (l[k] = None)
           /\ ("template" \in EmbeddedKeys(l.class) /\ l.template # None) =>
                /\ m["template"]["pattern_interval"] = l.template.pattern_interval
                /\ m["template"]["pattern_parts"] = l.template.pattern_parts
           /\ ("decoration" \in EmbeddedKeys(l.class) /\ l.decoration # None) =>
                IF l.decoration.class = "LineDecoration"
                   THEN Len(m["decoration"]["decorations"]) = Len(l.decoration.decorations)
                   ELSE m["decoration"]["positions"] = l.decoration.marker_positions
           /\ ("pattern_marker" \in EmbeddedKeys(l.class) /\ l.pattern_marker # None) =>
                m["pattern_marker"]["type"] = l.pattern_marker.class
           /\ ("line" \in EmbeddedKeys(l.class) /\ l.line # None) =>
                m["line"]["type"] = l.line.class

C7_Witness ==
    /\ Converted = {1, 2}
    /\ CallLevels[1].class = "HashLineSymbolLayer"
    /\ CallLevels[1].line = None
    /\ CallLevels[1].template # None
    /\ out["levels"][1]["line"] = None
    /\ out["levels"][1]["decoration"] = None

\* the color attributes of a layer variant
ColorFields(cls) ==
    CASE cls \in {"PictureFillSymbolLayer", "PictureMarkerSymbolLayer"} ->
             {"color_foreground", "color_background", "color_transparent"}
      [] cls = "SimpleMarkerSymbolLayer" -> {"color", "outline_color"}
      [] cls \in {"SimpleFillSymbolLayer", "ColorSymbol", "SimpleLineSymbolLayer",
                  "CartographicLineSymbolLayer", "MarkerLineSymbolLayer",
                  "HashLineSymbolLayer", "CharacterMarkerSymbolLayer",
                  "ArrowMarkerSymbolLayer"} -> {"color"}
      [] OTHER -> {}

\* the companion key of a color key
ModelKey(k) ==
    CASE k = "color" -> "color_model"
      [] k = "outline_color" -> "outline_color_model"
      [] k = "color_foreground" -> "color_foreground_model"
      [] k = "color_background" -> "color_background_model"
      [] k = "color_transparent" -> "color_transparent_model"

\* the color attributes whose absence the converter allows for
NullableColorFields(cls) ==
    CASE cls = "MarkerLineSymbolLayer" -> {"color"}
      [] cls = "PictureFillSymbolLayer" -> {"color_foreground", "color_transparent"}
      [] cls = "PictureMarkerSymbolLayer" -> {"color_transparent"}
      [] OTHER -> {}

\* a converted layer has, for each of its color fields, the field and its
\* companion: the color's dict and model, or None and None for no color
ColorsOfConverted(i) ==
    LET l == CallLevels[i]
        m == out["levels"][i]
    IN \A k \in ColorFields(l.class) :
          /\ Has(m, k)
          /\ Has(m, ModelKey(k))
          /\ l[k] # None => (m[k] = l[k].to_dict /\ m[ModelKey(k)] = l[k].model)
          /\ l[k] = None => (m[k] = None /\ m[ModelKey(k)] = None)

\* C8 as claimed: every color field of every converted layer has its
\* companion, and a layer with an absent color in any of its color fields
\* is converted, not failed.
C8_EveryColorNullable ==
    /\ \A i \in Converted : ColorsOfConverted(i)
    /\ RaisedAtLayer => exc # AttributeError

\* C8 as amended: every color field of every converted layer has its
\* companion (dict and model, or None and None); a converted layer lacks a
\* color only in MarkerLine color, PictureFill color_foreground or
\* color_transparent, or PictureMarker color_transparent; a call raises
\* AttributeError at a layer (whose embedded objects all have their colors)
\* only when another of the layer's color fields is absent.
C8_ColorCompanions ==
    /\ \A i \in Converted :
          /\ ColorsOfConverted(i)
          /\ \A k \in ColorFields(CallLevels[i].class) :
                CallLevels[i][k] = None => k \in NullableColorFields(CallLevels[i].class)
    /\ (RaisedAtLayer /\ exc = AttributeError) =>
          \E k \in ColorFields(CallLevels[idx].class)
                      \ NullableColorFields(CallLevels[idx].class) :
              CallLevels[idx][k] = None

C8_Witness ==
    /\ Converted = {1, 2}
    /\ CallLevels[1].class = "PictureFillSymbolLayer"
    /\ CallLevels[1].color_transparent = None
    /\ CallLevels[1].color_foreground = None
    /\ out["levels"][1]["color_transparent_model"] = None
    /\ CallLevels[2].class = "ColorSymbol"
    /\ out["levels"][2]["color_model"] = "cmyk"

HaloKeys == {"halo", "halo_size", "halo_symbol_type", "halo_symbol"}

\* C9: while and after a MarkerSymbol is converted, the map has halo and
\* halo_size of the symbol, halo_symbol_type = the class name of the halo
\* symbol ("NoneType" for none), and the key halo_symbol exactly when the
\* symbol has a halo symbol, holding what convert_symbol gives for the halo
\* symbol alone; the map of a FillSymbol or LineSymbol has no halo key.
C9_Halo ==
    (pc \in {"levels", "returned"} /\ IsSymbol(symbol)) =>
        IF symbol.class = "MarkerSymbol"
           THEN /\ out["halo"] = symbol.halo
                /\ out["halo_size"] = symbol.halo_size
                /\ out["halo_symbol_type"] = TypeName(symbol.halo_symbol)
                /\ out["halo_symbol_type"] \in {"FillSymbol", "NoneType"}
                /\ Has(out, "halo_symbol") <=> symbol.halo_symbol # None
                /\ Has(out, "halo_symbol") =>
                      /\ out["halo_symbol"] = convert_symbol(symbol.halo_symbol)
                      /\ out["halo_symbol"]["type"] = "FillSymbol"
                      /\ Len(out["halo_symbol"]["levels"]) = Len(symbol.halo_symbol.levels)
                /\ pc = "returned" => ret = out
           ELSE DOMAIN out \cap HaloKeys = {}

C9_Witness ==
    /\ pc = "returned"
    /\ symbol.class = "MarkerSymbol"
    /\ Has(ret, "halo_symbol")
    /\ Len(ret["halo_symbol"]["levels"]) = 2
    /\ Len(ret["levels"]) = 2

CharacterBaseKeys ==
    {"color", "color_model", "unicode", "font", "size", "angle", "x_offset", "y_offset"}

\* C10 as claimed: the base map of a CharacterMarkerSymbolLayer has exactly
\* the eight keys of CharacterBaseKeys, plus std_font when the layer has a
\* standard font.
C10_StdFontOptional ==
    \A i \in Converted :
        CallLevels[i].class = "CharacterMarkerSymbolLayer" =>
            DOMAIN out["levels"][i] \ UniversalKeys =
                CharacterBaseKeys
                    \cup (IF CallLevels[i].std_font # None THEN {"std_font"} ELSE {})

\* C10 as amended: the base map of a CharacterMarkerSymbolLayer has exactly
\* the eight keys of CharacterBaseKeys and std_font; std_font holds None when
\* the layer has no standard font and the seven fields of the font otherwise.
C10_StdFontAlways ==
    \A i \in Converted :
        LET l == CallLevels[i]
            m == out["levels"][i]
        IN l.class = "CharacterMarkerSymbolLayer" =>
              /\ DOMAIN m \ UniversalKeys = CharacterBaseKeys \cup {"std_font"}
              /\ (m["std_font"] = None) <=> (l.std_font = None)
              /\ l.std_font # None =>
                    m["std_font"] =
                        [font_name |-> l.std_font.font_name, charset |-> l.std_font.charset,
                         weight |-> l.std_font.weight, size |-> l.std_font.size,
                         italic |-> l.std_font.italic,
                         strikethrough |-> l.std_font.strikethrough,
                         underline |-> l.std_font.underline]
              /\ m["unicode"] = l.unicode
              /\ m["font"] = l.font

C10_Witness ==
    /\ Converted = {1, 2}
    /\ CallLevels[1].class = "CharacterMarkerSymbolLayer"
    /\ CallLevels[1].std_font = None
    /\ out["levels"][1]["std_font"] = None
    /\ CallLevels[2].class = "ArrowMarkerSymbolLayer"

\* the keys of the map of a SimpleLineDecoration
SimpleDecorationKeys == {"fixed_angle", "flip_first", "flip_all", "positions", "marker"}

\* m is the map C11 describes for the SimpleLineDecoration e
SimpleDecorationConverted(e, m) ==
    /\ DOMAIN m = SimpleDecorationKeys
    /\ m["fixed_angle"] = e.fixed_angle
    /\ m["flip_first"] = e.flip_first
    /\ m["flip_all"] = e.flip_all
    /\ m["positions"] = e.marker_positions
    /\ (m["marker"] = None) <=> (e.marker = None)
    /\ IsSymbolLayer(e.marker) =>
          /\ m["marker"] = convert_symbol_layer(e.marker)
          /\ m["marker"]["type"] = e.marker.class
          /\ ~ Has(m["marker"], "levels")
    /\ IsSymbol(e.marker) =>
          /\ m["marker"] = convert_symbol(e.marker)
          /\ m["marker"]["type"] = e.marker.class
          /\ Len(m["marker"]["levels"]) = Len(e.marker.levels)

\* r is the map C11 describes for the LineDecoration d
DecorationConverted(d, r) ==
    /\ DOMAIN r = {"decorations"}
    /\ Len(r["decorations"]) = Len(d.decorations)
    /\ \A i \in 1..Len(d.decorations) :
          IF d.decorations[i].class = "LineDecoration"
             THEN DecorationConverted(d.decorations[i], r["decorations"][i])
             ELSE SimpleDecorationConverted(d.decorations[i], r["decorations"][i])

\* the positions of the converted layers that carry a LineDecoration
WithLineDecoration ==
    {i \in Converted :
        /\ "decoration" \in EmbeddedKeys(CallLevels[i].class)
        /\ CallLevels[i].decoration # None
        /\ CallLevels[i].decoration.class = "LineDecoration"}

\* C11: for a LineDecoration with elements D, nested to any depth, the map
\* convert_decoration returns has the single key decorations, a sequence of
\* Len(D) entries in the order of D: the i-th is the conversion of D[i] when
\* D[i] is a LineDecoration, and otherwise a map of fixed_angle, flip_first,
\* flip_all, positions and marker, where marker is None when no marker is
\* attached, the layer map of a bare layer, and the type/levels map of a
\* symbol.
C11_DecorationSequence ==
    \A i \in WithLineDecoration :
        DecorationConverted(CallLevels[i].decoration, out["levels"][i]["decoration"])

C11_Witness ==
    /\ pc = "returned"
    /\ 1 \in WithLineDecoration
    /\ Len(CallLevels[1].decoration.decorations) = 2
    /\ CallLevels[1].decoration.decorations[1].class = "LineDecoration"
    /\ Len(CallLevels[1].decoration.decorations[1].decorations) = 2
    /\ Len(ret["levels"][1]["decoration"]["decorations"][1]["decorations"]) = 2
    /\ Has(ret["levels"][1]["decoration"]["decorations"][2]["marker"], "levels")

\* the calls made so far that returned a dict
Returned == {i \in 1..Len(results) : snapshots[i] # None}

\* C12: whatever calls were made on the converter before, a call that
\* returns returns the conversion of its argument by a new converter, with
\* no key or level of an earlier call; two calls with the same argument
\* return equal dicts; and a dict a call returned is not changed by the
\* calls made after it.
C12_HistoryIndependent ==
    /\ pc = "returned" =>
          /\ ret = convert_symbol(symbol)
          /\ DOMAIN ret = DOMAIN convert_symbol_header(symbol).out
          /\ Len(ret["levels"]) = Len(symbol_levels(symbol))
    /\ \A i \in Returned :
          /\ results[i] = snapshots[i]
          /\ results[i] = convert_symbol(history[i])
          /\ \A j \in Returned : history[i] = history[j] => results[i] = results[j]

C12_Witness ==
    /\ pc = "returned"
    /\ Len(history) = 3
    /\ Returned = {1, 3}
    /\ history[1].class = "MarkerSymbol"
    /\ history[2].class = "ColorRamp"
    /\ Has(results[1], "halo_symbol")
    /\ symbol.class = "FillSymbol"
    /\ ~ Has(ret, "halo")
    /\ Len(ret["levels"]) = 2

\* the keys of the accumulator other than levels
HeaderKeys(o) == DOMAIN o \ {"levels"}

\* the accumulator o of a pass on the symbol or bare layer s has the type of
\* the category of s and, for a MarkerSymbol, its halo fields
HeaderOf(o, s) ==
    /\ o["type"] = convert_symbol_header(s).out["type"]
    /\ s.class = "MarkerSymbol" =>
          /\ o["halo"] = s.halo
          /\ o["halo_size"] = s.halo_size
          /\ o["halo_symbol_type"] = TypeName(s.halo_symbol)

\* the positions of the layers converted so far that embed a symbol
WithNestedSymbol == {i \in Converted : nested_symbols(CallLevels[i]) # <<>>}

\* C13: the nested conversions (halo symbol, outline symbol, hatch line,
\* fill marker, pattern marker, hash line, decoration marker) run on
\* converters of their own: after the head of a call, self.out holds the
\* type and halo fields of the symbol of the call, not those of its halo
\* symbol, and a round of the loop, whatever symbols the layer embeds,
\* leaves every key of self.out other than levels as it was and keeps the
\* levels appended before it, unmodified and in place.
C13_ParentAccumulatorKept ==
    [][ /\ pc' = "levels" => HeaderOf(out', symbol')
        /\ pc = "levels" =>
              /\ DOMAIN out' = DOMAIN out
              /\ \A k \in HeaderKeys(out) : out'[k] = out[k]
              /\ Len(out'["levels"]) >= Len(out["levels"])
              /\ SubSeq(out'["levels"], 1, Len(out["levels"])) = out["levels"] ]_vars

C13_Witness ==
    /\ pc = "returned"
    /\ symbol.class = "FillSymbol"
    /\ WithNestedSymbol = {2}
    /\ symbol.levels[2].class = "LineFillSymbolLayer"
    /\ Len(nested_symbols(symbol.levels[2])) = 2
    /\ ret["levels"][1] = convert_symbol_layer(symbol.levels[1])
    /\ ret["levels"][2]["line_symbol"]["type"] = "LineSymbol"
    /\ ret["type"] = "FillSymbol"

====
